---- MODULE Spec2Model ----
(***************************************************************************)
(* StockAudioSynth (src/main.py): a controller thread calls                *)
(* load_stock_data / start_playback / stop_playback / set_playback_speed / *)
(* close on the synthesiser while worker threads run _generate_audio.      *)
(* The class holds no lock, so every statement of a method is a step of    *)
(* its own and the steps of the controller and of the workers interleave.  *)
(*                                                                         *)
(* Units.  Time is counted in quarter seconds.  current_index is kept      *)
(* in half indices (one fractional bit), so 2 * k stands for the index k   *)
(* and int() is truncation of the half-index value towards zero.           *)
(* Prices are integers; a row [time, close] of price_data is modelled by   *)
(* its closing price, the time label being opaque to the synthesiser.      *)
(* Frequencies are the entries of NOTE_MAPPING rounded to whole Hertz.     *)
(* The phase is kept in PhaseUnits-ths of a turn.                          *)
(***************************************************************************)
EXTENDS Integers, Sequences, FiniteSets, TLC

\* ------------------------------------------------------------------ bounds
MaxLen == 2          \* longest series the provider returns
MaxPrice == 2        \* closing prices are 1..MaxPrice
MaxElapsed == 1      \* longest time between two iterations, in quarter seconds
MaxSpeed == 2        \* speeds set by the caller are at most MaxSpeed
MaxThreads == 2      \* worker threads alive at the same time
MaxProbe == 16       \* prices 0..MaxProbe for the mapper on its own

\* --------------------------------------------------------- program constants
SAMPLE_RATE == 44100
CHUNK == 1024
BASE_NOTE == 440
NOTE_RANGE == 12

\* get_note_frequency(BASE_NOTE, i) for i in -12..12, rounded to whole Hertz.
NOTE_MAPPING ==
  << 220, 233, 247, 262, 277, 294, 311, 330, 349, 370, 392, 415, 440,
     466, 494, 523, 554, 587, 622, 659, 698, 740, 784, 831, 880 >>

\* An attribute __init__ does not create (min_price, max_price, price_range).
NoAttr == -1

VARIABLES
  running,          \* self.running
  thread,           \* self.thread: 0 for None, else the worker it names
  current_freq,     \* self.current_freq
  phase,            \* self.phase
  playback_speed,   \* self.playback_speed
  price_data,       \* self.price_data
  min_price,        \* self.min_price
  max_price,        \* self.max_price
  price_range,      \* self.price_range
  current_index,    \* self.current_index, in half indices
  since_update,     \* time.time() - self.last_update_time, in quarter seconds
  stream,           \* self.stream: "active", "stopped", "closed"
  ctl_pc,           \* where the controller thread is
  ret,              \* what the controller's last call returned
  w,                \* the worker threads: position in _generate_audio and locals
  fresh,            \* history: line 69 has run and the loop has not stored a position since
  idle_time,        \* history: the part of since_update that passed while not running
  ui_armed,         \* StockAudioApp: root.after holds a pending call of update_ui
  probe             \* the mapper applied on its own: inputs and result

synthVars == << running, thread, current_freq, phase, playback_speed, price_data,
                min_price, max_price, price_range, current_index, since_update >>
vars == << running, thread, current_freq, phase, playback_speed, price_data,
           min_price, max_price, price_range, current_index, since_update,
           stream, ctl_pc, ret, w, fresh, idle_time, ui_armed, probe >>

Threads == 1..MaxThreads
PriceSet == 1..MaxPrice
SeriesInputs == UNION { [1..n -> PriceSet] : n \in 1..MaxLen }
PosSpeeds == 1..MaxSpeed
AnySpeeds == (-1)..MaxSpeed

\* ---------------------------------------------------------------- helpers
Min2(a, b) == IF a <= b THEN a ELSE b
Max2(a, b) == IF a >= b THEN a ELSE b

SeqMin(s) == CHOOSE x \in { s[i] : i \in 1..Len(s) } :
                \A j \in 1..Len(s) : x <= s[j]
SeqMax(s) == CHOOSE x \in { s[i] : i \in 1..Len(s) } :
                \A j \in 1..Len(s) : x >= s[j]

\* int(x) of a half-index value: truncation towards zero, as a whole index.
IntOf(h) == IF h >= 0 THEN h \div 2 ELSE -((-h) \div 2)

\* len(self.price_data) - 1 in half indices.
LastHalf(s) == 2 * (Len(s) - 1)

\* Line 111: advance = elapsed * playback_speed * 2, in half indices for an
\* elapsed time in quarter seconds (2 half indices per index, 4 ticks per second).
Advance(elapsed, speed) == (elapsed * speed * 2 * 2) \div 4

\* Python 3 round(): to the nearest integer, ties to the even one (den > 0).
PyRound(num, den) ==
  LET q == num \div den
      r == num - q * den
  IN  IF 2 * r < den THEN q
      ELSE IF 2 * r > den THEN q + 1
      ELSE IF q % 2 = 0 THEN q ELSE q + 1

\* Lines 95-99 with the "- 1" of line 95 left out: normalized in [0, 2].
SemitoneUnshifted(price, minp, range) ==
  LET raw == PyRound(2 * (price - minp) * NOTE_RANGE, range)
  IN  Max2(-NOTE_RANGE, Min2(NOTE_RANGE, raw))

\* Lines 95-99: the semitone of a price, price_range # 0.
\*   normalized * NOTE_RANGE = (2 * (price - min) - range) * NOTE_RANGE / range
Semitone(price, minp, range) ==
  LET raw == PyRound((2 * (price - minp) - range) * NOTE_RANGE, range)
  IN  Max2(-NOTE_RANGE, Min2(NOTE_RANGE, raw))

\* NOTE_MAPPING[i] for a Python index i: 0 stands for IndexError.
NoteAt(i) ==
  IF i \in 0..(2 * NOTE_RANGE) THEN NOTE_MAPPING[i + 1]
  ELSE IF i \in (-(2 * NOTE_RANGE + 1))..(-1) THEN NOTE_MAPPING[2 * NOTE_RANGE + 2 + i]
  ELSE 0

\* Lines 89-101.
MapPriceToNote(price, minp, range) ==
  IF range = 0 THEN BASE_NOTE
  ELSE NoteAt(Semitone(price, minp, range) + NOTE_RANGE)

\* Line 128: 2 * np.pi in phase units (a third of a turn each).
PhaseUnits == 3

\* Line 128: the phase advance of one block, in phase units.
PhaseStep(freq) == ((freq * CHUNK * PhaseUnits) \div SAMPLE_RATE) % PhaseUnits

\* ------------------------------------------------------------------ workers
\* A thread outside the loop.  late is history: the blocks the thread has handed
\* to the device with running false since it last passed the test of line 105.
Idle == [pc |-> "none", advance |-> 0, newidx |-> 0, idx |-> 0,
         price |-> 0, ser |-> << >>, samples |-> 0, err |-> "none", late |-> 0]

\* threading.Thread.is_alive(): pc "none" is a thread that has not started or
\* has returned from _generate_audio, "crashed" one an exception has ended.
Alive(t) == w[t].pc \notin {"none", "crashed"}

\* The controller is between line 61 and line 69 of load_stock_data.
LoadingPcs == {"load_min", "load_max", "load_range", "load_reset"}
\* The controller is in close, after its stop_playback (line 134) has returned.
ClosePcs == {"close_active", "close_close"}

\* self.price_data[i] with Python's indexing: a negative index counts from the
\* end; 0 stands for the IndexError of an index outside -len..len-1.
PriceAt(i) ==
  LET n == Len(price_data)
  IN  IF i \in 0..(n - 1) THEN price_data[i + 1]
      ELSE IF i \in (-n)..(-1) THEN price_data[n + i + 1]
      ELSE 0

\* ---------------------------------------------------------------- __init__
Init ==
  /\ running = FALSE
  /\ thread = 0
  /\ current_freq = BASE_NOTE
  /\ phase = 0
  /\ playback_speed = 1
  /\ price_data = << >>
  /\ min_price = NoAttr
  /\ max_price = NoAttr
  /\ price_range = NoAttr
  /\ current_index = 0
  /\ since_update = 0
  /\ stream = "active"
  /\ ctl_pc = "idle"
  /\ ret = "None"
  /\ w = [t \in Threads |-> Idle]
  /\ fresh = FALSE
  /\ idle_time = 0
  /\ ui_armed = TRUE
  /\ probe = [price |-> 0, minp |-> 0, maxp |-> 0, applied |-> FALSE, note |-> 0]

\* ------------------------------------------------------------- controller
\* load_stock_data, lines 50-56: up to the call of the data provider, which
\* takes time; the workers run on while the controller waits for it.
load_stock_data ==
  /\ ctl_pc = "idle"
  /\ ctl_pc' = "load_fetch"
  /\ ret' = "pending"
  /\ UNCHANGED << synthVars, stream, w, fresh, idle_time, ui_armed, probe >>

\* Lines 58-61 in the other order: the rows are stored before df.empty is tested.
load_fail_empty_after_assign ==
  /\ ctl_pc = "load_fetch"
  /\ ctl_pc' = "idle"
  /\ ret' = "no_data"
  /\ price_data' = << >>
  /\ UNCHANGED << running, thread, current_freq, phase, playback_speed, min_price,
                  max_price, price_range, current_index, since_update,
                  stream, w, fresh, idle_time, ui_armed, probe >>

\* Lines 58-59: the provider returned an empty frame.
load_fail_empty ==
  /\ ctl_pc = "load_fetch"
  /\ ctl_pc' = "idle"
  /\ ret' = "no_data"
  /\ UNCHANGED << synthVars, stream, w, fresh, idle_time, ui_armed, probe >>

\* Lines 71-72: the provider raised.
load_fail_exception ==
  /\ ctl_pc = "load_fetch"
  /\ ctl_pc' = "idle"
  /\ ret' = "load_failed"
  /\ UNCHANGED << synthVars, stream, w, fresh, idle_time, ui_armed, probe >>

\* Line 61: the provider returned the rows of `series`.
load_assign(series) ==
  /\ ctl_pc = "load_fetch"
  /\ price_data' = series
  /\ ctl_pc' = "load_min"
  /\ UNCHANGED << running, thread, current_freq, phase, playback_speed, min_price,
                  max_price, price_range, current_index, since_update,
                  stream, ret, w, fresh, idle_time, ui_armed, probe >>

\* Lines 64-65.
load_min ==
  /\ ctl_pc = "load_min"
  /\ min_price' = SeqMin(price_data)
  /\ ctl_pc' = "load_max"
  /\ UNCHANGED << running, thread, current_freq, phase, playback_speed, price_data,
                  max_price, price_range, current_index, since_update,
                  stream, ret, w, fresh, idle_time, ui_armed, probe >>

\* Line 66.
load_max ==
  /\ ctl_pc = "load_max"
  /\ max_price' = SeqMax(price_data)
  /\ ctl_pc' = "load_range"
  /\ UNCHANGED << running, thread, current_freq, phase, playback_speed, price_data,
                  min_price, price_range, current_index, since_update,
                  stream, ret, w, fresh, idle_time, ui_armed, probe >>

\* Line 67.
load_range ==
  /\ ctl_pc = "load_range"
  /\ price_range' = max_price - min_price
  /\ ctl_pc' = "load_reset"
  /\ UNCHANGED << running, thread, current_freq, phase, playback_speed, price_data,
                  min_price, max_price, current_index, since_update,
                  stream, ret, w, fresh, idle_time, ui_armed, probe >>

\* Lines 69-70.
load_reset ==
  /\ ctl_pc = "load_reset"
  /\ current_index' = 0
  /\ fresh' = TRUE
  /\ ret' = "loaded"
  /\ ctl_pc' = "idle"
  /\ UNCHANGED << running, thread, current_freq, phase, playback_speed, price_data,
                  min_price, max_price, price_range, since_update,
                  stream, w, idle_time, ui_armed, probe >>

\* The slot of the thread object start_playback creates.
FreeSlot == CHOOSE t \in Threads : ~Alive(t) /\ \A u \in Threads : ~Alive(u) => t <= u

\* Lines 74-79.  The call returns None whether or not it started a thread.
start_playback ==
  /\ ctl_pc = "idle"
  /\ (~running /\ price_data # << >>) => \E t \in Threads : ~Alive(t)
  /\ IF ~running /\ price_data # << >>
       THEN /\ running' = TRUE
            /\ thread' = FreeSlot
            /\ w' = [w EXCEPT ![FreeSlot] = [Idle EXCEPT !.pc = "check"]]
       ELSE UNCHANGED << running, thread, w >>
  /\ ret' = "None"
  /\ UNCHANGED << current_freq, phase, playback_speed, price_data, min_price,
                  max_price, price_range, current_index, since_update,
                  stream, ctl_pc, fresh, idle_time, ui_armed, probe >>

\* Lines 82-83: clear the flag, then join the thread if it is alive.
StopPlayback(joinPc, donePc) ==
  /\ running' = FALSE
  /\ ctl_pc' = IF thread # 0 /\ Alive(thread) THEN joinPc ELSE donePc
  /\ UNCHANGED << thread, current_freq, phase, playback_speed, price_data, min_price,
                  max_price, price_range, current_index, since_update,
                  stream, w, fresh, idle_time, ui_armed, probe >>

\* Lines 81-84.
stop_playback ==
  /\ ctl_pc = "idle"
  /\ StopPlayback("join", "idle")
  /\ ret' = "None"

\* Line 84: join returns because the thread has ended.
join_return ==
  /\ ctl_pc \in {"join", "close_join"}
  /\ ~Alive(thread)
  /\ ctl_pc' = IF ctl_pc = "join" THEN "idle" ELSE "close_active"
  /\ UNCHANGED << synthVars, stream, ret, w, fresh, idle_time, ui_armed, probe >>

\* Line 84: join(timeout=0.1) returns with the thread still alive.  The only
\* place the loop can stay for 0.1 s is its blocking stream.write.
join_timeout ==
  /\ ctl_pc \in {"join", "close_join"}
  /\ w[thread].pc = "writing"
  /\ ctl_pc' = IF ctl_pc = "join" THEN "idle" ELSE "close_active"
  /\ UNCHANGED << synthVars, stream, ret, w, fresh, idle_time, ui_armed, probe >>

\* Lines 86-87.
set_playback_speed(speed) ==
  /\ ctl_pc = "idle"
  /\ playback_speed' = speed
  /\ ret' = "None"
  /\ UNCHANGED << running, thread, current_freq, phase, price_data, min_price,
                  max_price, price_range, current_index, since_update,
                  stream, ctl_pc, w, fresh, idle_time, ui_armed, probe >>

\* Lines 133-134.
close ==
  /\ ctl_pc = "idle"
  /\ StopPlayback("close_join", "close_active")
  /\ ret' = "pending"

\* Lines 135-136.  is_active() of a closed stream raises IOError to the caller.
close_stop_stream ==
  /\ ctl_pc = "close_active"
  /\ IF stream = "closed"
       THEN /\ ret' = "IOError"
            /\ ctl_pc' = "idle"
            /\ UNCHANGED stream
       ELSE /\ stream' = IF stream = "active" THEN "stopped" ELSE stream
            /\ ctl_pc' = "close_close"
            /\ UNCHANGED ret
  /\ UNCHANGED << synthVars, w, fresh, idle_time, ui_armed, probe >>

\* Lines 137-138.
close_stream ==
  /\ ctl_pc = "close_close"
  /\ stream' = "closed"
  /\ ret' = "None"
  /\ ctl_pc' = "idle"
  /\ UNCHANGED << synthVars, w, fresh, idle_time, ui_armed, probe >>

\* StockAudioApp.update_ui, lines 283-300, run by the Tk main loop between two
\* handlers of the controller.  An exception leaves the callback before line
\* 300, so no further call is scheduled.
update_ui ==
  /\ ctl_pc = "idle"
  /\ ui_armed
  /\ ui_armed' = IF price_data # << >> /\ IntOf(current_index) < Len(price_data)
                   THEN PriceAt(IntOf(current_index)) # 0 /\ price_range # 0
                   ELSE TRUE
  /\ UNCHANGED << synthVars, stream, ctl_pc, ret, w, fresh, idle_time, probe >>

\* time.time() moves on by a quarter second.
Tick ==
  /\ since_update < MaxElapsed
  /\ since_update' = since_update + 1
  /\ idle_time' = IF running THEN idle_time ELSE idle_time + 1
  /\ UNCHANGED << running, thread, current_freq, phase, playback_speed, price_data,
                  min_price, max_price, price_range, current_index,
                  stream, ctl_pc, ret, w, fresh, ui_armed, probe >>

\* ------------------------------------------------------- _generate_audio
Crash(t, error) == [w EXCEPT ![t] = [Idle EXCEPT !.pc = "crashed", !.err = error]]

\* Line 105 testing self.price_data alone.
generate_audio_check_ignoring_running(t) ==
  /\ w[t].pc = "check"
  /\ w' = IF price_data # << >>
            THEN [w EXCEPT ![t].pc = "time"]
            ELSE [w EXCEPT ![t] = Idle]
  /\ UNCHANGED << synthVars, stream, ctl_pc, ret, fresh, idle_time, ui_armed, probe >>

\* Line 105.
generate_audio_check(t) ==
  /\ w[t].pc = "check"
  /\ w' = IF running /\ price_data # << >>
            THEN [w EXCEPT ![t].pc = "time", ![t].late = 0]
            ELSE [w EXCEPT ![t] = Idle]
  /\ UNCHANGED << synthVars, stream, ctl_pc, ret, fresh, idle_time, ui_armed, probe >>

\* Lines 107-111 and the right-hand side of line 112.
generate_audio_advance(t) ==
  /\ w[t].pc = "time"
  /\ LET adv == Advance(since_update, playback_speed)
     IN  w' = [w EXCEPT ![t].pc = "adv_store",
                        ![t].advance = adv,
                        ![t].newidx = Min2(LastHalf(price_data), current_index + adv)]
  /\ since_update' = 0
  /\ idle_time' = 0
  /\ UNCHANGED << running, thread, current_freq, phase, playback_speed, price_data,
                  min_price, max_price, price_range, current_index,
                  stream, ctl_pc, ret, fresh, ui_armed, probe >>

\* The store of line 112.
generate_audio_store(t) ==
  /\ w[t].pc = "adv_store"
  /\ current_index' = w[t].newidx
  /\ fresh' = FALSE
  /\ w' = [w EXCEPT ![t].pc = "int", ![t].newidx = 0, ![t].advance = 0]
  /\ UNCHANGED << running, thread, current_freq, phase, playback_speed, price_data,
                  min_price, max_price, price_range, since_update,
                  stream, ctl_pc, ret, idle_time, ui_armed, probe >>

\* Lines 114-116.
generate_audio_int(t) ==
  /\ w[t].pc = "int"
  /\ LET i == IntOf(current_index)
     IN  w' = IF i >= Len(price_data) - 1
                 THEN [w EXCEPT ![t].idx = Len(price_data) - 1, ![t].pc = "clamp_store"]
                 ELSE [w EXCEPT ![t].idx = i, ![t].pc = "fetch"]
  /\ UNCHANGED << synthVars, stream, ctl_pc, ret, fresh, idle_time, ui_armed, probe >>

\* Line 117.
generate_audio_clamp_store(t) ==
  /\ w[t].pc = "clamp_store"
  /\ current_index' = 2 * w[t].idx
  /\ fresh' = FALSE
  /\ w' = [w EXCEPT ![t].pc = "fetch"]
  /\ UNCHANGED << running, thread, current_freq, phase, playback_speed, price_data,
                  min_price, max_price, price_range, since_update,
                  stream, ctl_pc, ret, idle_time, ui_armed, probe >>

\* Line 120, then line 121 calling lines 91-92.
generate_audio_fetch(t) ==
  /\ w[t].pc = "fetch"
  /\ IF PriceAt(w[t].idx) = 0
       THEN /\ w' = Crash(t, "IndexError")
            /\ UNCHANGED current_freq
       ELSE IF price_range = NoAttr
         THEN /\ w' = Crash(t, "AttributeError")
              /\ UNCHANGED current_freq
         ELSE IF price_range = 0
           THEN /\ current_freq' = BASE_NOTE
                /\ w' = [w EXCEPT ![t].pc = "gen", ![t].idx = 0]
           ELSE /\ w' = [w EXCEPT ![t].pc = "map2", ![t].idx = 0,
                                  ![t].price = PriceAt(w[t].idx), ![t].ser = price_data]
                /\ UNCHANGED current_freq
  /\ UNCHANGED << running, thread, phase, playback_speed, price_data, min_price,
                  max_price, price_range, current_index, since_update,
                  stream, ctl_pc, ret, fresh, idle_time, ui_armed, probe >>

\* Lines 95-101 and the store of line 121.
generate_audio_map2(t) ==
  /\ w[t].pc = "map2"
  /\ IF price_range = 0
       THEN /\ w' = Crash(t, "ZeroDivisionError")
            /\ UNCHANGED current_freq
       ELSE /\ current_freq' = MapPriceToNote(w[t].price, min_price, price_range)
            /\ w' = [w EXCEPT ![t].pc = "gen", ![t].price = 0, ![t].ser = << >>]
  /\ UNCHANGED << running, thread, phase, playback_speed, price_data, min_price,
                  max_price, price_range, current_index, since_update,
                  stream, ctl_pc, ret, fresh, idle_time, ui_armed, probe >>

\* Lines 124-125: the block is generated from self.current_freq, starting at
\* self.phase.
generate_audio_samples(t) ==
  /\ w[t].pc = "gen"
  /\ w' = [w EXCEPT ![t].pc = "phase", ![t].samples = phase]
  /\ UNCHANGED << synthVars, stream, ctl_pc, ret, fresh, idle_time, ui_armed, probe >>

\* Line 128, then the call of line 131.  stream.write blocks, and on a stream
\* that is not active it raises IOError, which ends the thread.
generate_audio_write(t) ==
  /\ w[t].pc = "phase"
  /\ phase' = (phase + PhaseStep(current_freq)) % PhaseUnits
  /\ w' = IF stream = "active"
            THEN [w EXCEPT ![t].pc = "writing",
                           ![t].late = IF running THEN 0 ELSE Min2(2, @ + 1)]
            ELSE Crash(t, "IOError")
  /\ UNCHANGED << running, thread, current_freq, playback_speed, price_data, min_price,
                  max_price, price_range, current_index, since_update,
                  stream, ctl_pc, ret, fresh, idle_time, ui_armed, probe >>

\* Line 131: the device has taken the block and stream.write returns.
generate_audio_write_return(t) ==
  /\ w[t].pc = "writing"
  /\ w' = [w EXCEPT ![t] = [Idle EXCEPT !.pc = "check", !.late = w[t].late]]
  /\ UNCHANGED << synthVars, stream, ctl_pc, ret, fresh, idle_time, ui_armed, probe >>

\* Line 131: the stream was stopped or closed under a blocked write.
generate_audio_write_error(t) ==
  /\ w[t].pc = "writing"
  /\ stream # "active"
  /\ w' = Crash(t, "IOError")
  /\ UNCHANGED << synthVars, stream, ctl_pc, ret, fresh, idle_time, ui_armed, probe >>

\* Line 131: the output device fails under the write (PyAudio raises IOError
\* out of stream.write); nothing in _generate_audio catches it.
generate_audio_write_fail(t) ==
  /\ w[t].pc = "writing"
  /\ stream = "active"
  /\ w' = Crash(t, "IOError")
  /\ UNCHANGED << synthVars, stream, ctl_pc, ret, fresh, idle_time, ui_armed, probe >>

Worker(t) ==
  \/ generate_audio_check(t)
  \/ generate_audio_advance(t)
  \/ generate_audio_store(t)
  \/ generate_audio_int(t)
  \/ generate_audio_clamp_store(t)
  \/ generate_audio_fetch(t)
  \/ generate_audio_map2(t)
  \/ generate_audio_samples(t)
  \/ generate_audio_write(t)
  \/ generate_audio_write_return(t)

Controller(speeds) ==
  \/ load_stock_data
  \/ load_fail_empty
  \/ load_fail_exception
  \/ \E series \in SeriesInputs : load_assign(series)
  \/ load_min
  \/ load_max
  \/ load_range
  \/ load_reset
  \/ start_playback
  \/ stop_playback
  \/ join_return
  \/ \E speed \in speeds : set_playback_speed(speed)
  \/ close
  \/ close_stop_stream
  \/ close_stream

\* The caller keeps to positive speeds (the speed slider runs from 0.1 to 5.0)
\* and no device write outlasts the 0.1 s of join: one worker at a time.
Next ==
  \/ Controller(PosSpeeds)
  \/ \E t \in Threads : Worker(t)
  \/ Tick

Spec == Init /\ [][Next]_vars

\* A series is loaded (lines 61-70 have run once) and nothing else has happened.
InitLoaded ==
  /\ running = FALSE
  /\ thread = 0
  /\ current_freq = BASE_NOTE
  /\ phase = 0
  /\ playback_speed = 1
  /\ price_data \in SeriesInputs
  /\ min_price = SeqMin(price_data)
  /\ max_price = SeqMax(price_data)
  /\ price_range = max_price - min_price
  /\ current_index = 0
  /\ since_update = 0
  /\ stream = "active"
  /\ ctl_pc = "idle"
  /\ ret = "loaded"
  /\ w = [t \in Threads |-> Idle]
  /\ fresh = TRUE
  /\ idle_time = 0
  /\ ui_armed = TRUE
  /\ probe = [price |-> 0, minp |-> 0, maxp |-> 0, applied |-> FALSE, note |-> 0]

\* Playing one loaded series, where a device write may outlast the 0.1 s of
\* join, so that stop_playback returns with the worker still alive.
NextStall ==
  \/ start_playback
  \/ stop_playback
  \/ join_return
  \/ join_timeout
  \/ \E speed \in PosSpeeds : set_playback_speed(speed)
  \/ close
  \/ close_stop_stream
  \/ close_stream
  \/ \E t \in Threads : Worker(t)
  \/ \E t \in Threads : generate_audio_write_error(t)
  \/ Tick

SpecStall == InitLoaded /\ [][NextStall]_vars

\* Loading, also while a started loop runs: the caller loads and starts and
\* never stops, closes or changes the speed.
NextLoad ==
  \/ load_stock_data
  \/ load_fail_empty
  \/ load_fail_exception
  \/ \E series \in SeriesInputs : load_assign(series)
  \/ load_min
  \/ load_max
  \/ load_range
  \/ load_reset
  \/ start_playback
  \/ \E t \in Threads : Worker(t)
  \/ Tick

SpecLoad == Init /\ [][NextLoad]_vars

\* Playing one loaded series on a device whose write may fail.
NextDevice ==
  \/ start_playback
  \/ stop_playback
  \/ join_return
  \/ \E t \in Threads : Worker(t)
  \/ \E t \in Threads : generate_audio_write_fail(t)
  \/ Tick

SpecDevice == InitLoaded /\ [][NextDevice]_vars

\* Starting and stopping one loaded series, where join may time out.  Every
\* thread is scheduled again and again, and every device write returns.
NextStop ==
  \/ start_playback
  \/ stop_playback
  \/ join_return
  \/ join_timeout
  \/ \E t \in Threads : Worker(t)
  \/ Tick

SpecStop == InitLoaded /\ [][NextStop]_vars /\ \A t \in Threads : WF_vars(Worker(t))

\* Loading and playing under the display poll of the front end.
NextUI ==
  \/ NextLoad
  \/ update_ui

SpecUI == Init /\ [][NextUI]_vars

\* As Next, and the caller passes any number to set_playback_speed.  A position
\* that a negative speed drives below zero is followed down to -MaxLen.
NextAnySpeed ==
  \/ Controller(AnySpeeds)
  \/ \E t \in Threads : Worker(t) /\ current_index' >= -(2 * MaxLen)
  \/ Tick

SpecAnySpeed == Init /\ [][NextAnySpeed]_vars

\* ------------------------------------------------- the mapper on its own
ProbeInputs ==
  { [price |-> p, minp |-> lo, maxp |-> hi, applied |-> FALSE, note |-> 0] :
      p \in 0..MaxProbe, lo \in 0..MaxProbe, hi \in 0..MaxProbe }

\* A series with minimum minp and maximum maxp is loaded and holds the price.
InitMap ==
  /\ running = FALSE
  /\ thread = 0
  /\ current_freq = BASE_NOTE
  /\ phase = 0
  /\ playback_speed = 1
  /\ price_data = << >>
  /\ min_price = NoAttr
  /\ max_price = NoAttr
  /\ price_range = NoAttr
  /\ current_index = 0
  /\ since_update = 0
  /\ stream = "active"
  /\ ctl_pc = "idle"
  /\ ret = "None"
  /\ w = [t \in Threads |-> Idle]
  /\ fresh = FALSE
  /\ idle_time = 0
  /\ ui_armed = TRUE
  /\ probe \in { x \in ProbeInputs : x.minp <= x.price /\ x.price <= x.maxp }

\* Lines 89-101 applied to the price, with price_range = max_price - min_price
\* as line 67 sets it.
map_price_to_note ==
  /\ ~probe.applied
  /\ probe' = [probe EXCEPT !.applied = TRUE,
                            !.note = MapPriceToNote(probe.price, probe.minp,
                                                    probe.maxp - probe.minp)]
  /\ UNCHANGED << synthVars, stream, ctl_pc, ret, w, fresh, idle_time, ui_armed >>

SpecMap == InitMap /\ [][map_price_to_note]_vars

\* ================================================================ claims

\* C1: when stop_playback has returned inside close (lines 134-138), no worker
\* is in an iteration that writes or will write to the stream, and no worker is
\* inside stream.write once the stream is closed.
C1_NoWriteAfterStop ==
  /\ ctl_pc \in ClosePcs => \A t \in Threads : w[t].pc \in {"none", "crashed", "check"}
  /\ stream = "closed" => \A t \in Threads : w[t].pc # "writing"

\* C2: in every iteration the statistics the loop reads (price_range at line
\* 91, min_price and price_range at line 95) are those of the series its sample
\* was read from at line 120.
C2_LoadAtomic ==
  [][ \A t \in Threads :
        /\ (w[t].pc = "fetch" /\ w'[t].pc # "fetch")
             => price_range = SeqMax(price_data) - SeqMin(price_data)
        /\ (w[t].pc = "map2" /\ w'[t].pc # "map2")
             => /\ min_price = SeqMin(w[t].ser)
                /\ price_range = SeqMax(w[t].ser) - SeqMin(w[t].ser) ]_vars

\* C3: whenever a non-empty series is loaded (no load is between its lines 61
\* and 69), 0 <= current_index <= len(price_data) - 1.
C3_PositionInRange ==
  (price_data # << >> /\ ctl_pc \notin LoadingPcs)
    => (0 <= current_index /\ current_index <= LastHalf(price_data))

\* C4: within one load, with positive speeds only, no step lowers
\* current_index or leaves it above the last index.
C4_Monotone ==
  [][ (price_data # << >> /\ ctl_pc \notin LoadingPcs /\ ctl_pc' \notin LoadingPcs)
        => (current_index' >= current_index /\ current_index' <= LastHalf(price_data')) ]_vars

\* C5: within one load, once current_index is the last index it stays the
\* last index, and while the stream is open no worker of a running driver
\* ends by itself.
C5_HoldAtEnd ==
  [][ (price_data # << >> /\ ctl_pc \notin LoadingPcs /\ ctl_pc' \notin LoadingPcs
         /\ current_index = LastHalf(price_data))
        => /\ current_index' = LastHalf(price_data')
           /\ \A t \in Threads :
                (running /\ running' /\ stream = "active" /\ w[t].pc \notin {"none", "crashed"})
                  => w'[t].pc \notin {"none", "crashed"} ]_vars

\* C6: the first position the loop stores after a load has returned is 0 plus
\* that iteration's advance, clamped to the last index.
C6_LoadResetsPosition ==
  [][ \A t \in Threads :
        (w[t].pc \in {"adv_store", "clamp_store"} /\ w'[t].pc # w[t].pc
           /\ fresh /\ ctl_pc \notin LoadingPcs)
          => current_index' = Min2(LastHalf(price_data), 0 + w[t].advance) ]_vars

\* C7: a load that fails (empty frame, or the provider raising) returns a
\* failure with its message and changes none of price_data, min_price,
\* max_price, price_range, current_index, running and playback_speed.
C7_FailedLoadKeepsState ==
  [][ (ctl_pc = "load_fetch" /\ ctl_pc' = "idle")
        => /\ ret' \in {"no_data", "load_failed"}
           /\ UNCHANGED << price_data, min_price, max_price, price_range,
                           current_index, running, playback_speed >> ]_vars

\* A load has failed while a loaded series was playing.
C7_Witness ==
  /\ ctl_pc = "idle"
  /\ ret \in {"no_data", "load_failed"}
  /\ price_data # << >>
  /\ running

\* C8: start_playback with no series loaded reports a state error and does not
\* enter Running; with a series loaded it leaves the driver Running.
C8_StartContract ==
  [][ start_playback
        => IF price_data = << >>
             THEN ret' = "StateError" /\ running' = FALSE
             ELSE running' = TRUE ]_vars

\* C9: playback_speed > 0 in every reachable state.
C9_SpeedPositive == playback_speed > 0

\* C10: for a price in [min_price, max_price] the mapper returns an entry of
\* NOTE_MAPPING; with price_range = 0 it is BASE_NOTE, and otherwise the
\* minimum gives the first entry (semitone -12), the maximum the last (+12).
C10_MapperRange ==
  probe.applied =>
    /\ \E i \in 1..(2 * NOTE_RANGE + 1) : probe.note = NOTE_MAPPING[i]
    /\ probe.maxp = probe.minp => probe.note = BASE_NOTE
    /\ (probe.maxp > probe.minp /\ probe.price = probe.minp)
         => probe.note = NOTE_MAPPING[1]
    /\ (probe.maxp > probe.minp /\ probe.price = probe.maxp)
         => probe.note = NOTE_MAPPING[2 * NOTE_RANGE + 1]

\* The mapper has been applied to the maximum of a series with a non-zero range.
C10_Witness ==
  /\ probe.applied
  /\ probe.maxp > probe.minp
  /\ probe.price = probe.maxp
  /\ probe.note = NOTE_MAPPING[2 * NOTE_RANGE + 1]

\* Rounding to the nearest integer with ties away from zero (den > 0), the
\* rounding the mapper's contract asks for.
RoundHalfAway(num, den) ==
  LET q == num \div den
      r == num - q * den
  IN  IF 2 * r < den THEN q
      ELSE IF 2 * r > den THEN q + 1
      ELSE IF num >= 0 THEN q + 1 ELSE q

\* C11: for every price of a series with a non-zero range the mapper returns
\* the note of the semitone round-half-away-from-zero(normalized * NOTE_RANGE),
\* clamped to -NOTE_RANGE..NOTE_RANGE; 4.5 gives semitone 5 and -4.5 gives -5.
C11_RoundHalfAway ==
  (probe.applied /\ probe.maxp > probe.minp) =>
    LET range == probe.maxp - probe.minp
        semi == Max2(-NOTE_RANGE, Min2(NOTE_RANGE,
                  RoundHalfAway((2 * (probe.price - probe.minp) - range) * NOTE_RANGE, range)))
    IN  probe.note = NOTE_MAPPING[semi + NOTE_RANGE + 1]

\* C12: after a failed device write the driver is not left Running without a
\* live worker, and a start_playback called with no worker alive starts one.
C12_WriteFailureStops ==
  [][ /\ running' => \E t \in Threads : w'[t].pc \notin {"none", "crashed"}
      /\ (start_playback /\ \A t \in Threads : ~Alive(t))
           => \E t \in Threads : w'[t].pc \notin {"none", "crashed"} ]_vars

\* C13: once close has closed the stream the driver is never Running again
\* and no worker runs (so no block is handed to the closed stream).
C13_ClosedTerminal ==
  stream = "closed" => (~running /\ \A t \in Threads : ~Alive(t))

\* C14: at most one worker thread is inside _generate_audio in every state.
C14_SingleWorker ==
  Cardinality({ t \in Threads : Alive(t) }) <= 1

\* C15: the advance an iteration computes (line 111) counts only the time
\* that passed while the driver was running since the previous iteration.
C15_AdvanceOnlyWhileRunning ==
  [][ \A t \in Threads :
        (w[t].pc = "time" /\ w'[t].pc = "adv_store")
          => w'[t].advance = Advance(since_update - idle_time, playback_speed) ]_vars

\* C16: a worker hands at most one block to the device with running false
\* before it leaves the loop, and after running has become false either a
\* start_playback sets it again or every worker ends.
C16_StopCooperative ==
  /\ [](\A t \in Threads : w[t].late <= 1)
  /\ (~running ~> (running \/ \A t \in Threads : ~Alive(t)))

\* After stop_playback a worker has completed the write that was pending and
\* is back at the loop test.
C16_Witness ==
  /\ ~running
  /\ \E t \in Threads : w[t].pc = "check" /\ w[t].late = 1

\* C17: the phase is in [0, 2*pi) in every state, and when a worker moves the
\* phase on (line 128) the phase is still the one its block started at (line
\* 125): no other block was started or ended in between, so each block starts
\* where the previous one ended.
C17_PhaseThreaded ==
  /\ [](phase \in 0..(PhaseUnits - 1))
  /\ [][ \A t \in Threads :
            (w[t].pc = "phase" /\ w'[t].pc # "phase") => phase = w[t].samples ]_vars

\* C18: right after a load has returned success, and right after a
\* start_playback that enters Running, current_index = 0 and phase = 0.
C18_ResetOnLoadAndStart ==
  [][ (load_reset \/ (start_playback /\ ~running /\ running'))
        => (current_index' = 0 /\ phase' = 0) ]_vars

\* C19: no worker is ended by an IndexError of line 120 or a
\* ZeroDivisionError of line 95.
C19_NoInternalFault ==
  \A t \in Threads : w[t].err \notin {"IndexError", "ZeroDivisionError"}

\* C20: every call of update_ui returns without raising and schedules the next
\* call (line 300), whatever series is loaded.
C20_PollContinues ==
  [][ update_ui => ui_armed' ]_vars

====
